---- MODULE Spec2Model ----
(***************************************************************************)
(* Model of src/main.py: class Maze.                                       *)
(*   generate_maze   randomized iterative depth-first carving              *)
(*   solve_maze_bfs  one-shot breadth-first solver                         *)
(*   bfs_stepwise    the same search as a Python generator                 *)
(* Cells are pairs <<row, col>>, 0-indexed as in the source.  A cell's     *)
(* walls are a function 0..3 -> BOOLEAN in the source's order              *)
(* [top, right, bottom, left]; TRUE means "wall".                          *)
(***************************************************************************)
EXTENDS Integers, Sequences, FiniteSets, TLC

\* Largest number of cells (height * width) of the mazes explored.
MaxCells == 6

\* Python's None: the parent of start, and the "no path" result.
None == <<>>

\* directions = [(-1,0),(0,1),(1,0),(0,-1)]; directions[i+1] is direction i.
directions == << <<-1, 0>>, <<0, 1>>, <<1, 0>>, <<0, -1>> >>

VARIABLES
    height, width, start, end,   \* Maze.__init__ arguments
    grid,                        \* self.grid
    visited,                     \* self.visited (generation only)
    stack,                       \* generate_maze: local stack
    gen_pc,                      \* "constructed" | "loop" | "done" | "preset"
    solve_pc,                    \* "idle" | "loop" | "returned" | "raised"
    solve_queue, solve_visited, solve_parent,   \* solve_maze_bfs locals
    solve_popped,                \* history: cells popped by solve_maze_bfs
    solve_result,                \* returned path, or None
    step_pc,                     \* "idle" | "created" | "yielded" | "done"
    step_queue, step_visited, step_parent,      \* bfs_stepwise locals
    step_cur,                    \* bfs_stepwise: (r, c) of the last pop
    yielded,                     \* history: one record per yield
    gen_choices,                 \* history: index drawn by each random.choice
    gen_pushed,                  \* history: cells pushed on the stack
    gen_before,                  \* history: the grid when generate_maze was
                                 \* called again, None before that
    recon_pc,                    \* "idle" | "returned" | "raised" | "looping"
    recon_result,                \* path returned by reconstruct_path, or None
    recon_arg,                   \* history: the map passed to reconstruct_path
    solve_first,                 \* history: <<result of the first solve
                                 \* call>> once a further call was made
    other                        \* a second bfs_stepwise generator

mazeVars  == <<height, width, start, end>>
genVars   == <<grid, visited, stack, gen_pc>>
solveVars == <<solve_pc, solve_queue, solve_visited, solve_parent,
               solve_popped, solve_result>>
stepVars  == <<step_pc, step_queue, step_visited, step_parent, step_cur,
               yielded>>
histVars  == <<gen_choices, gen_pushed, gen_before>>
reconVars == <<recon_pc, recon_result, recon_arg>>
multiVars == <<solve_first, other>>
vars == <<mazeVars, genVars, solveVars, stepVars, histVars, reconVars,
          multiVars>>

----------------------------------------------------------------------------
\* Geometry

Dims == {d \in (1..MaxCells) \X (1..MaxCells) : d[1] * d[2] <= MaxCells}

CellsOf(h, w) == (0..(h - 1)) \X (0..(w - 1))

Cells == CellsOf(height, width)

\* 0 <= nr < self.height and 0 <= nc < self.width
InBounds(cell, h, w) ==
    /\ 0 <= cell[1] /\ cell[1] < h
    /\ 0 <= cell[2] /\ cell[2] < w

\* nr, nc = r+dr, c+dc for direction i
Move(cell, i) ==
    <<cell[1] + directions[i + 1][1], cell[2] + directions[i + 1][2]>>

\* [[False]*width for _ in range(height)]
AllFalse(h, w) == [cell \in CellsOf(h, w) |-> FALSE]

\* [[[True, True, True, True] for _ in range(width)] for _ in range(height)]
FreshGrid(h, w) == [cell \in CellsOf(h, w) |-> [i \in 0..3 |-> TRUE]]

----------------------------------------------------------------------------
\* generate_maze

\* GenNeighbors without the test `not self.visited[nr][nc]`.
GenNeighborsAll(cell, vis, h, w) ==
    {n \in {[i |-> i, cell |-> Move(cell, i)] : i \in 0..3} :
        InBounds(n.cell, h, w)}

\* GenNeighbors with the column test written `0 < nc`.
GenNeighborsStrict(cell, vis, h, w) ==
    {n \in {[i |-> i, cell |-> Move(cell, i)] : i \in 0..3} :
        InBounds(n.cell, h, w) /\ 0 < n.cell[2] /\ ~vis[n.cell]}

\* The list `neighbors` built at the top of an iteration: (i, nr, nc) for
\* every direction whose neighbour is in bounds and not yet visited.
GenNeighbors(cell, vis, h, w) ==
    {n \in {[i |-> i, cell |-> Move(cell, i)] : i \in 0..3} :
        InBounds(n.cell, h, w) /\ ~vis[n.cell]}

\* RemoveWall with the opposite side computed as (i+1)%4.
RemoveWallSkewed(g, cell, i, ncell) ==
    LET opposite == (i + 1) % 4
        g1 == [g EXCEPT ![cell][i] = FALSE]
    IN  [g1 EXCEPT ![ncell][opposite] = FALSE]

\* RemoveWall that clears the neighbour's half only.
RemoveWallFarSide(g, cell, i, ncell) ==
    LET opposite == (i + 2) % 4
    IN  [g EXCEPT ![ncell][opposite] = FALSE]

\* self.grid[r][c][i] = False; self.grid[nr][nc][(i+2)%4] = False
RemoveWall(g, cell, i, ncell) ==
    LET opposite == (i + 2) % 4
        g1 == [g EXCEPT ![cell][i] = FALSE]
    IN  [g1 EXCEPT ![ncell][opposite] = FALSE]

\* GenChoice on a list that holds the neighbours in the opposite order.
GenChoiceFromEnd(neighbors, k) ==
    CHOOSE n \in neighbors :
        Cardinality({m \in neighbors : m.i > n.i}) = k - 1

\* random.choice(neighbors) when the random source draws index k (from 1):
\* the list holds the neighbours in the order of their direction i.
GenChoice(neighbors, k) ==
    CHOOSE n \in neighbors :
        Cardinality({m \in neighbors : m.i < n.i}) = k - 1

\* stack = [self.start]; self.visited[start] = True
GenCall ==
    /\ gen_pc = "constructed"
    /\ stack' = <<start>>
    /\ visited' = [visited EXCEPT ![start] = TRUE]
    /\ gen_pc' = "loop"
    /\ gen_choices' = <<>>
    /\ gen_pushed' = <<start>>
    /\ UNCHANGED <<mazeVars, grid, solveVars, stepVars, gen_before,
                   reconVars, multiVars>>

\* One iteration of `while stack:`; random.choice is the \E.  The loop test
\* that follows the iteration is part of it: an empty stack ends the call.
GenIter ==
    /\ gen_pc = "loop"
    /\ LET top == stack[Len(stack)]
           neighbors == GenNeighbors(top, visited, height, width)
       IN  IF neighbors # {}
           THEN \E k \in 1..Cardinality(neighbors) :
                   LET n == GenChoice(neighbors, k)
                   IN  /\ grid' = RemoveWall(grid, top, n.i, n.cell)
                       /\ visited' = [visited EXCEPT ![n.cell] = TRUE]
                       /\ stack' = Append(stack, n.cell)
                       /\ gen_choices' = Append(gen_choices, k)
                       /\ gen_pushed' = Append(gen_pushed, n.cell)
           ELSE /\ stack' = SubSeq(stack, 1, Len(stack) - 1)
                /\ UNCHANGED <<grid, visited, gen_choices, gen_pushed>>
    /\ gen_pc' = IF stack' = <<>> THEN "done" ELSE "loop"
    /\ UNCHANGED <<mazeVars, solveVars, stepVars, gen_before, reconVars,
                   multiVars>>

\* GenAgain on a visited matrix allocated anew by the call.
GenAgainFresh ==
    /\ gen_pc = "done"
    /\ stack' = <<start>>
    /\ visited' = [AllFalse(height, width) EXCEPT ![start] = TRUE]
    /\ gen_pc' = "loop"
    /\ gen_choices' = <<>>
    /\ gen_pushed' = <<start>>
    /\ gen_before' = grid
    /\ UNCHANGED <<mazeVars, grid, solveVars, stepVars, reconVars,
                   multiVars>>

\* generate_maze called again on a maze whose generation has ended: the
\* same two statements, on the self.visited the first call left behind.
\* gen_before records the grid the call found.
GenAgain ==
    /\ gen_pc = "done"
    /\ stack' = <<start>>
    /\ visited' = [visited EXCEPT ![start] = TRUE]
    /\ gen_pc' = "loop"
    /\ gen_choices' = <<>>
    /\ gen_pushed' = <<start>>
    /\ gen_before' = grid
    /\ UNCHANGED <<mazeVars, grid, solveVars, stepVars, reconVars,
                   multiVars>>

----------------------------------------------------------------------------
\* solve_maze_bfs

\* SolveExpand that pushes a discovered cell on the front of the queue.
RECURSIVE SolveExpandLifo(_, _, _)
SolveExpandLifo(st, cell, i) ==
    IF i > 3 THEN st
    ELSE LET ncell == Move(cell, i)
             take == /\ InBounds(ncell, height, width)
                     /\ ~st.visited[ncell]
                     /\ ~grid[cell][i]
         IN  IF take
             THEN SolveExpandLifo(
                    [queue   |-> <<ncell>> \o st.queue,
                     visited |-> [st.visited EXCEPT ![ncell] = TRUE],
                     parent  |-> (ncell :> cell) @@ st.parent],
                    cell, i + 1)
             ELSE SolveExpandLifo(st, cell, i + 1)

\* SolveExpand without the test `if not self.grid[r][c][i]`.
RECURSIVE SolveExpandNoWall(_, _, _)
SolveExpandNoWall(st, cell, i) ==
    IF i > 3 THEN st
    ELSE LET ncell == Move(cell, i)
             take == /\ InBounds(ncell, height, width)
                     /\ ~st.visited[ncell]
         IN  IF take
             THEN SolveExpandNoWall(
                    [queue   |-> Append(st.queue, ncell),
                     visited |-> [st.visited EXCEPT ![ncell] = TRUE],
                     parent  |-> (ncell :> cell) @@ st.parent],
                    cell, i + 1)
             ELSE SolveExpandNoWall(st, cell, i + 1)

\* SolveExpand without `visited[nr][nc] = True`.
RECURSIVE SolveExpandNoMark(_, _, _)
SolveExpandNoMark(st, cell, i) ==
    IF i > 3 THEN st
    ELSE LET ncell == Move(cell, i)
             take == /\ InBounds(ncell, height, width)
                     /\ ~st.visited[ncell]
                     /\ ~grid[cell][i]
         IN  IF take
             THEN SolveExpandNoMark(
                    [queue   |-> Append(st.queue, ncell),
                     visited |-> st.visited,
                     parent  |-> (ncell :> cell) @@ st.parent],
                    cell, i + 1)
             ELSE SolveExpandNoMark(st, cell, i + 1)

\* The `for i, (dr, dc) in enumerate(directions)` loop of solve_maze_bfs,
\* from direction i on.  st = [queue, visited, parent] are the locals.
RECURSIVE SolveExpand(_, _, _)
SolveExpand(st, cell, i) ==
    IF i > 3 THEN st
    ELSE LET ncell == Move(cell, i)
             take == /\ InBounds(ncell, height, width)
                     /\ ~st.visited[ncell]
                     /\ ~grid[cell][i]
         IN  IF take
             THEN SolveExpand(
                    [queue   |-> Append(st.queue, ncell),
                     visited |-> [st.visited EXCEPT ![ncell] = TRUE],
                     parent  |-> (ncell :> cell) @@ st.parent],
                    cell, i + 1)
             ELSE SolveExpand(st, cell, i + 1)

\* path.reverse()
RECURSIVE Reverse(_)
Reverse(s) == IF s = <<>> THEN <<>> ELSE Append(Reverse(Tail(s)), Head(s))

\* SolveWalk without path.reverse().
RECURSIVE SolveWalkNoReverse(_, _, _)
SolveWalkNoReverse(parent, curr, path) ==
    IF curr = None THEN path
    ELSE IF curr \notin DOMAIN parent THEN <<>>
    ELSE SolveWalkNoReverse(parent, parent[curr], Append(path, curr))

\* while curr is not None: path.append(curr); curr = parent[curr]
\* A missing key raises KeyError: the walk then gives <<>>, which is no path
\* (a path holds at least the cell the walk began at).
RECURSIVE SolveWalk(_, _, _)
SolveWalk(parent, curr, path) ==
    IF curr = None THEN Reverse(path)
    ELSE IF curr \notin DOMAIN parent THEN <<>>
    ELSE SolveWalk(parent, parent[curr], Append(path, curr))

\* The locals of a search before its loop: queue = deque([start]),
\* a fresh visited matrix with start marked, parent = {start: None}.
SearchStart ==
    [queue   |-> <<start>>,
     visited |-> [AllFalse(height, width) EXCEPT ![start] = TRUE],
     parent  |-> (start :> None)]

\* No search runs before generate_maze has returned (or the grid was preset).
GridReady == gen_pc \in {"done", "preset"}

\* SolveCall that marks start in self.visited, the matrix of the instance.
SolveCallOnSelf ==
    /\ GridReady
    /\ solve_pc = "idle"
    /\ solve_queue' = SearchStart.queue
    /\ solve_visited' = SearchStart.visited
    /\ visited' = [visited EXCEPT ![start] = TRUE]
    /\ solve_parent' = SearchStart.parent
    /\ solve_pc' = "loop"
    /\ UNCHANGED <<mazeVars, grid, stack, gen_pc, solve_popped, solve_result,
                   stepVars, histVars, reconVars, multiVars>>

\* The call of solve_maze_bfs up to its loop.
SolveCall ==
    /\ GridReady
    /\ solve_pc = "idle"
    /\ solve_queue' = SearchStart.queue
    /\ solve_visited' = SearchStart.visited
    /\ solve_parent' = SearchStart.parent
    /\ solve_pc' = "loop"
    /\ UNCHANGED <<mazeVars, genVars, solve_popped, solve_result, stepVars,
                   histVars, reconVars, multiVars>>

\* One iteration of `while queue:` of solve_maze_bfs.  The loop test that
\* follows the iteration is part of it: an empty queue returns None.
SolveIter ==
    /\ solve_pc = "loop"
    /\ LET cell == Head(solve_queue)
           st == SolveExpand([queue   |-> Tail(solve_queue),
                              visited |-> solve_visited,
                              parent  |-> solve_parent], cell, 0)
           path == SolveWalk(solve_parent, end, <<>>)
       IN  /\ solve_popped' = Append(solve_popped, cell)
           /\ IF cell = end
              THEN /\ solve_queue' = Tail(solve_queue)
                   /\ solve_result' = path
                   /\ solve_pc' = IF path = <<>> THEN "raised" ELSE "returned"
                   /\ UNCHANGED <<solve_visited, solve_parent>>
              ELSE /\ solve_queue' = st.queue
                   /\ solve_visited' = st.visited
                   /\ solve_parent' = st.parent
                   /\ solve_result' = None
                   /\ solve_pc' = IF st.queue = <<>> THEN "returned" ELSE "loop"
    /\ UNCHANGED <<mazeVars, genVars, stepVars, histVars, reconVars,
                   multiVars>>

----------------------------------------------------------------------------
\* bfs_stepwise

\* StepExpand that enumerates the directions left, down, right, up.
RECURSIVE StepExpandReversed(_, _, _)
StepExpandReversed(st, cell, i) ==
    IF i > 3 THEN st
    ELSE LET ncell == Move(cell, 3 - i)
             take == /\ InBounds(ncell, height, width)
                     /\ ~st.visited[ncell]
                     /\ ~grid[cell][3 - i]
         IN  IF take
             THEN StepExpandReversed(
                    [queue   |-> Append(st.queue, ncell),
                     visited |-> [st.visited EXCEPT ![ncell] = TRUE],
                     parent  |-> (ncell :> cell) @@ st.parent],
                    cell, i + 1)
             ELSE StepExpandReversed(st, cell, i + 1)

\* StepExpand that stops after the directions up, right, down.
RECURSIVE StepExpandThree(_, _, _)
StepExpandThree(st, cell, i) ==
    IF i > 2 THEN st
    ELSE LET ncell == Move(cell, i)
             take == /\ InBounds(ncell, height, width)
                     /\ ~st.visited[ncell]
                     /\ ~grid[cell][i]
         IN  IF take
             THEN StepExpandThree(
                    [queue   |-> Append(st.queue, ncell),
                     visited |-> [st.visited EXCEPT ![ncell] = TRUE],
                     parent  |-> (ncell :> cell) @@ st.parent],
                    cell, i + 1)
             ELSE StepExpandThree(st, cell, i + 1)

\* StepExpand without the test `not visited[nr][nc]`.
RECURSIVE StepExpandRevisit(_, _, _)
StepExpandRevisit(st, cell, i) ==
    IF i > 3 THEN st
    ELSE LET ncell == Move(cell, i)
             take == /\ InBounds(ncell, height, width)
                     /\ ~grid[cell][i]
         IN  IF take
             THEN StepExpandRevisit(
                    [queue   |-> Append(st.queue, ncell),
                     visited |-> [st.visited EXCEPT ![ncell] = TRUE],
                     parent  |-> (ncell :> cell) @@ st.parent],
                    cell, i + 1)
             ELSE StepExpandRevisit(st, cell, i + 1)

\* The `for i, (dr, dc) in enumerate(directions)` loop of bfs_stepwise.
RECURSIVE StepExpand(_, _, _)
StepExpand(st, cell, i) ==
    IF i > 3 THEN st
    ELSE LET ncell == Move(cell, i)
             take == /\ InBounds(ncell, height, width)
                     /\ ~st.visited[ncell]
                     /\ ~grid[cell][i]
         IN  IF take
             THEN StepExpand(
                    [queue   |-> Append(st.queue, ncell),
                     visited |-> [st.visited EXCEPT ![ncell] = TRUE],
                     parent  |-> (ncell :> cell) @@ st.parent],
                    cell, i + 1)
             ELSE StepExpand(st, cell, i + 1)

\* gen = self.bfs_stepwise(): the generator object exists, no line of the
\* body has run.
StepCreate ==
    /\ GridReady
    /\ solve_pc # "loop"
    /\ step_pc = "idle"
    /\ step_pc' = "created"
    /\ UNCHANGED <<mazeVars, genVars, solveVars, step_queue, step_visited,
                   step_parent, step_cur, yielded, histVars, reconVars,
                   multiVars>>

\* StepResume without `if (r,c) == end: return`.
StepResumeNoStop ==
    /\ step_pc \in {"created", "yielded"}
    /\ solve_pc # "loop"
    /\ LET st == IF step_pc = "created"
                 THEN SearchStart
                 ELSE StepExpand([queue   |-> step_queue,
                                  visited |-> step_visited,
                                  parent  |-> step_parent], step_cur, 0)
       IN  /\ step_visited' = st.visited
           /\ step_parent' = st.parent
           /\ IF st.queue = <<>>
              THEN /\ step_pc' = "done"
                   /\ step_queue' = <<>>
                   /\ UNCHANGED <<step_cur, yielded>>
              ELSE /\ step_pc' = "yielded"
                   /\ step_cur' = Head(st.queue)
                   /\ step_queue' = Tail(st.queue)
                   /\ yielded' = Append(yielded,
                                    [cell    |-> Head(st.queue),
                                     visited |-> st.visited,
                                     parent  |-> st.parent])
    /\ UNCHANGED <<mazeVars, genVars, solveVars, histVars, reconVars,
                   multiVars>>

\* next(gen): the body runs from where it was suspended to the next yield
\* or to its end.  The first resumption runs the set-up; a later one resumes
\* after `yield`: it returns if the popped cell is end, else expands it.
\* Then `while queue:` pops the next cell and yields it, or the body ends.
\* A yield records the cell and what visited and parent held at that time.
StepResume ==
    /\ step_pc \in {"created", "yielded"}
    /\ solve_pc # "loop"
    /\ IF step_pc = "yielded" /\ step_cur = end
       THEN /\ step_pc' = "done"
            /\ UNCHANGED <<step_queue, step_visited, step_parent, step_cur,
                           yielded>>
       ELSE LET st == IF step_pc = "created"
                      THEN SearchStart
                      ELSE StepExpand([queue   |-> step_queue,
                                       visited |-> step_visited,
                                       parent  |-> step_parent], step_cur, 0)
            IN  /\ step_visited' = st.visited
                /\ step_parent' = st.parent
                /\ IF st.queue = <<>>
                   THEN /\ step_pc' = "done"
                        /\ step_queue' = <<>>
                        /\ UNCHANGED <<step_cur, yielded>>
                   ELSE /\ step_pc' = "yielded"
                        /\ step_cur' = Head(st.queue)
                        /\ step_queue' = Tail(st.queue)
                        /\ yielded' = Append(yielded,
                                         [cell    |-> Head(st.queue),
                                          visited |-> st.visited,
                                          parent  |-> st.parent])
    /\ UNCHANGED <<mazeVars, genVars, solveVars, histVars, reconVars,
                   multiVars>>

\* `yield (r, c, visited, parent)` hands out the generator's own list and
\* dict, the same objects at every yield: what the caller holds from the
\* k-th yield shows, at any later time, the generator's current contents.
HeldVisited(k) == step_visited
HeldParent(k) == step_parent

----------------------------------------------------------------------------
\* Further searches over the same maze

\* SolveAgain that keeps the visited matrix of the call before.
SolveAgainStale ==
    /\ GridReady
    /\ solve_pc = "returned"
    /\ solve_first' = IF solve_first = <<>> THEN <<solve_result>>
                                            ELSE solve_first
    /\ solve_queue' = SearchStart.queue
    /\ solve_visited' = [solve_visited EXCEPT ![start] = TRUE]
    /\ solve_parent' = SearchStart.parent
    /\ solve_popped' = <<>>
    /\ solve_result' = None
    /\ solve_pc' = "loop"
    /\ UNCHANGED <<mazeVars, genVars, stepVars, histVars, reconVars, other>>

\* A further call of solve_maze_bfs after an earlier one has returned: the
\* call builds its own queue, visited matrix and parent map.  The earlier
\* result is not kept by the program; solve_first records what the first
\* call returned.
SolveAgain ==
    /\ GridReady
    /\ solve_pc = "returned"
    /\ solve_first' = IF solve_first = <<>> THEN <<solve_result>>
                                            ELSE solve_first
    /\ solve_queue' = SearchStart.queue
    /\ solve_visited' = SearchStart.visited
    /\ solve_parent' = SearchStart.parent
    /\ solve_popped' = <<>>
    /\ solve_result' = None
    /\ solve_pc' = "loop"
    /\ UNCHANGED <<mazeVars, genVars, stepVars, histVars, reconVars, other>>

\* A second call self.bfs_stepwise(): another generator object, whose
\* locals are the fields of `other`; cells holds the cells it has yielded.
OtherCreate ==
    /\ GridReady
    /\ solve_pc # "loop"
    /\ other.pc = "idle"
    /\ other' = [other EXCEPT !.pc = "created"]
    /\ UNCHANGED <<mazeVars, genVars, solveVars, stepVars, histVars,
                   reconVars, solve_first>>

\* next() on the second generator: the body of bfs_stepwise as in
\* StepResume, on the second generator's own locals.
OtherResume ==
    /\ other.pc \in {"created", "yielded"}
    /\ solve_pc # "loop"
    /\ IF other.pc = "yielded" /\ other.cur = end
       THEN other' = [other EXCEPT !.pc = "done"]
       ELSE LET st == IF other.pc = "created"
                      THEN SearchStart
                      ELSE StepExpand([queue   |-> other.queue,
                                       visited |-> other.visited,
                                       parent  |-> other.parent],
                                      other.cur, 0)
            IN  IF st.queue = <<>>
                THEN other' = [other EXCEPT !.pc = "done",
                                            !.queue = <<>>,
                                            !.visited = st.visited,
                                            !.parent = st.parent]
                ELSE other' = [pc      |-> "yielded",
                               queue   |-> Tail(st.queue),
                               visited |-> st.visited,
                               parent  |-> st.parent,
                               cur     |-> Head(st.queue),
                               cells   |-> Append(other.cells,
                                                  Head(st.queue))]
    /\ UNCHANGED <<mazeVars, genVars, solveVars, stepVars, histVars,
                   reconVars, solve_first>>

----------------------------------------------------------------------------
\* reconstruct_path

\* ReconWalk that reads the map with parent.get(curr).
RECURSIVE ReconWalkGet(_, _, _)
ReconWalkGet(parent, curr, path) ==
    IF curr = None THEN [kind |-> "returned", path |-> Reverse(path)]
    ELSE IF curr \notin DOMAIN parent
         THEN [kind |-> "returned", path |-> Reverse(Append(path, curr))]
    ELSE IF Len(path) >= Cardinality(DOMAIN parent)
         THEN [kind |-> "looping", path |-> None]
    ELSE ReconWalkGet(parent, parent[curr], Append(path, curr))

\* while curr is not None: path.append(curr); curr = parent[curr]
\* then path.reverse(); return path.  parent[curr] raises KeyError for a
\* missing key.  When the walk has appended as many cells as the map has
\* keys and stands on a key again, a key has repeated and the loop never
\* ends.
RECURSIVE ReconWalk(_, _, _)
ReconWalk(parent, curr, path) ==
    IF curr = None THEN [kind |-> "returned", path |-> Reverse(path)]
    ELSE IF curr \notin DOMAIN parent THEN [kind |-> "raised", path |-> None]
    ELSE IF Len(path) >= Cardinality(DOMAIN parent)
         THEN [kind |-> "looping", path |-> None]
    ELSE ReconWalk(parent, parent[curr], Append(path, curr))

\* self.reconstruct_path(parent)
Reconstruct(parent) ==
    /\ recon_pc = "idle"
    /\ solve_pc # "loop"
    /\ LET res == ReconWalk(parent, end, <<>>)
       IN  /\ recon_pc' = res.kind
           /\ recon_result' = res.path
    /\ recon_arg' = parent
    /\ UNCHANGED <<mazeVars, genVars, solveVars, stepVars, histVars,
                   multiVars>>

\* The caller of bfs_stepwise: once a yielded cell equals self.end it stops
\* resuming and calls reconstruct_path on the map of that yield.
ReconstructHeld ==
    /\ step_pc = "yielded"
    /\ step_cur = end
    /\ Reconstruct(HeldParent(Len(yielded)))

\* The maps a caller can pass: any cells as keys, a cell or None as value.
ParentMaps(C) == UNION {[D -> C \cup {None}] : D \in SUBSET C}

\* reconstruct_path called with an arbitrary map.
ReconstructAny == \E p \in ParentMaps(Cells) : Reconstruct(p)

----------------------------------------------------------------------------
\* Specifications

SearchIdle ==
    /\ solve_pc = "idle"
    /\ solve_queue = <<>> /\ solve_visited = <<>> /\ solve_parent = <<>>
    /\ solve_popped = <<>> /\ solve_result = None
    /\ step_pc = "idle"
    /\ step_queue = <<>> /\ step_visited = <<>> /\ step_parent = <<>>
    /\ step_cur = None /\ yielded = <<>>
    /\ gen_choices = <<>> /\ gen_pushed = <<>> /\ gen_before = None
    /\ recon_pc = "idle" /\ recon_result = None /\ recon_arg = <<>>
    /\ solve_first = <<>>
    /\ other = [pc |-> "idle", queue |-> <<>>, visited |-> <<>>,
                parent |-> <<>>, cur |-> None, cells |-> <<>>]

\* Maze(width, height, start, end): a fully walled grid, nothing visited.
Init ==
    /\ \E d \in Dims :
         /\ height = d[1] /\ width = d[2]
         /\ start \in CellsOf(d[1], d[2])
         /\ end \in CellsOf(d[1], d[2])
         /\ grid = FreshGrid(d[1], d[2])
         /\ visited = AllFalse(d[1], d[2])
    /\ stack = <<>>
    /\ gen_pc = "constructed"
    /\ SearchIdle

Next == GenCall \/ GenIter \/ SolveCall \/ SolveIter \/ StepCreate \/ StepResume

\* The program: construct, generate, then search.
Spec == Init /\ [][Next]_vars

\* The program under the scheduling the code gives it: a call of
\* generate_maze or solve_maze_bfs runs its loop to the end, and the caller
\* of bfs_stepwise creates the generator and keeps resuming it.
SpecLive ==
    /\ Spec
    /\ WF_vars(GenCall) /\ WF_vars(GenIter)
    /\ WF_vars(SolveIter)
    /\ WF_vars(StepCreate) /\ WF_vars(StepResume)

NextMulti ==
    \/ GenCall \/ GenIter
    \/ SolveCall \/ SolveIter \/ SolveAgain
    \/ StepCreate \/ StepResume
    \/ OtherCreate \/ OtherResume

\* The program with repeated calls of solve_maze_bfs and two generators
\* of bfs_stepwise resumed in any interleaving.
SpecMulti == Init /\ [][NextMulti]_vars

NextRegen == GenCall \/ GenIter \/ GenAgain

\* generate_maze called repeatedly on one maze.
SpecRegen == Init /\ [][NextRegen]_vars

\* Largest number of cells of the mazes on which reconstruct_path is given
\* arbitrary maps.
MaxMapCells == 3

\* Maze(width, height) with the default start, nothing generated.
InitRecon ==
    /\ \E d \in {e \in Dims : e[1] * e[2] <= MaxMapCells} :
         /\ height = d[1] /\ width = d[2]
         /\ start = <<0, 0>>
         /\ end \in CellsOf(d[1], d[2])
         /\ grid = FreshGrid(d[1], d[2])
         /\ visited = AllFalse(d[1], d[2])
    /\ stack = <<>>
    /\ gen_pc = "constructed"
    /\ SearchIdle

NextRecon == ReconstructAny

\* reconstruct_path as a function of the map passed and self.end.
SpecRecon == InitRecon /\ [][NextRecon]_vars

\* The passages between cells of an h x w grid, each named once by the cell
\* it leaves rightwards (1) or downwards (2).
InnerEdges(h, w) ==
    {e \in CellsOf(h, w) \X {1, 2} : InBounds(Move(e[1], e[2]), h, w)}

\* The wall-symmetric grid whose open passages are exactly `open`.
GridWith(h, w, open) ==
    [cell \in CellsOf(h, w) |->
        [i \in 0..3 |->
            ~(\/ <<cell, i>> \in open
              \/ <<Move(cell, i), (i + 2) % 4>> \in open)]]

\* A Maze whose grid was set to an arbitrary wall-symmetric layout
\* (perfect or not) instead of being generated.
InitGrid ==
    /\ \E d \in Dims :
         /\ height = d[1] /\ width = d[2]
         /\ start \in CellsOf(d[1], d[2])
         /\ end \in CellsOf(d[1], d[2])
         /\ \E open \in SUBSET InnerEdges(d[1], d[2]) :
               grid = GridWith(d[1], d[2], open)
         /\ visited = AllFalse(d[1], d[2])
    /\ stack = <<>>
    /\ gen_pc = "preset"
    /\ SearchIdle

NextGrid == SolveCall \/ SolveIter \/ StepCreate \/ StepResume

\* The searches over arbitrary grids.
SpecGrid == InitGrid /\ [][NextGrid]_vars

\* A caller that calls solve_maze_bfs once it is through with the generator.
SolveCallAfter ==
    /\ step_pc = "done" \/ recon_pc # "idle"
    /\ SolveCall

NextView ==
    StepCreate \/ StepResume \/ ReconstructHeld \/ SolveCallAfter \/ SolveIter

\* Over arbitrary grids, a caller that drives bfs_stepwise as
\* visualize_realtime_bfs does, reconstructs the path when end is yielded,
\* and then calls solve_maze_bfs.
SpecView == InitGrid /\ [][NextView]_vars

----------------------------------------------------------------------------
\* The passage graph, defined from the grid alone (independent of the
\* searches above).

Opposite(i) == (i + 2) % 4

\* Cell a has an in-bounds neighbour in direction i and neither half of the
\* wall between them stands.
Open(a, i) ==
    /\ InBounds(Move(a, i), height, width)
    /\ ~grid[a][i]
    /\ ~grid[Move(a, i)][Opposite(i)]

OpenNeighbours(S) ==
    UNION {{Move(a, i) : i \in {j \in 0..3 : Open(a, j)}} : a \in S}

\* Cells joined to a cell of S by open passages.
RECURSIVE ReachFrom(_)
ReachFrom(S) ==
    LET T == S \cup OpenNeighbours(S)
    IN  IF T = S THEN S ELSE ReachFrom(T)

Reachable == end \in ReachFrom({start})

\* Full breadth-first expansion, level by level and with no early exit:
\* the distance from start of every cell joined to it.
RECURSIVE Levels(_, _, _, _)
Levels(frontier, seen, d, dist) ==
    IF frontier = {} THEN dist
    ELSE LET nxt == OpenNeighbours(frontier) \ seen
         IN  Levels(nxt, seen \cup nxt, d + 1,
                    [c \in frontier |-> d] @@ dist)

Distance == Levels({start}, {start}, 0, <<>>)

OpenPassages == {e \in InnerEdges(height, width) : Open(e[1], e[2])}

YieldedCells == [k \in 1..Len(yielded) |-> yielded[k].cell]

----------------------------------------------------------------------------
\* Generation

\* C1 (perfectness): when generate_maze has finished on a fresh maze, every
\* cell is joined to start by open passages and exactly width*height - 1
\* passages are open.
Perfectness ==
    gen_pc = "done" =>
        /\ ReachFrom({start}) = Cells
        /\ Cardinality(OpenPassages) = width * height - 1

\* A finished 2 x 3 or 3 x 2 maze.
PerfectnessReached ==
    /\ gen_pc = "done"
    /\ height >= 2 /\ width >= 2
    /\ Cardinality(OpenPassages) >= 5

\* C6 (wall symmetry): in every state of the grid (fresh, at each iteration
\* of the generation loop, after generation) a cell's wall flag toward an
\* in-bounds neighbour equals the neighbour's flag in the opposite direction.
WallSymmetry ==
    \A a \in Cells : \A i \in 0..3 :
        InBounds(Move(a, i), height, width) =>
            grid[a][i] = grid[Move(a, i)][(i + 2) % 4]

\* Mid-generation, with passages carved and walls still standing.
WallSymmetryReached ==
    /\ gen_pc = "loop"
    /\ Len(stack) >= 2
    /\ \E a \in Cells : \E i \in 0..3 : Open(a, i)
    /\ \E a \in Cells : \E i \in 0..3 :
          InBounds(Move(a, i), height, width) /\ grid[a][i]

----------------------------------------------------------------------------
\* solve_maze_bfs and bfs_stepwise over arbitrary grids

\* C2 (path validity): a path returned by solve_maze_bfs begins at start,
\* ends at end, and each of its steps goes to a grid-adjacent cell through a
\* wall that is absent.
PathValidity ==
    (solve_pc = "returned" /\ solve_result # None) =>
        /\ solve_result[1] = start
        /\ solve_result[Len(solve_result)] = end
        /\ \A k \in 1..(Len(solve_result) - 1) :
              \E i \in 0..3 :
                  /\ solve_result[k + 1] = Move(solve_result[k], i)
                  /\ Open(solve_result[k], i)

\* A returned path of at least three cells.
PathValidityReached ==
    /\ solve_pc = "returned"
    /\ Len(solve_result) >= 3

\* C3 (BFS optimality): when end is joined to start, the number of edges of
\* the path solve_maze_bfs returns is the distance of end found by the full
\* level-by-level expansion.
BfsOptimality ==
    (solve_pc = "returned" /\ Reachable) =>
        Len(solve_result) - 1 = Distance[end]

\* A returned path in a grid that has a cycle, so that longer routes exist.
BfsOptimalityReached ==
    /\ solve_pc = "returned"
    /\ Len(solve_result) >= 3
    /\ Cardinality(OpenPassages) >= width * height

\* C4 (stepwise/synchronous equivalence): the cells bfs_stepwise has yielded
\* and the cells solve_maze_bfs has popped agree position by position, and
\* when both have finished the two sequences are equal.
StepwiseEquivalence ==
    /\ \A k \in 1..Len(yielded) :
          k <= Len(solve_popped) => yielded[k].cell = solve_popped[k]
    /\ (solve_pc = "returned" /\ step_pc = "done") =>
          YieldedCells = solve_popped

\* Both searches finished after popping at least four cells.
StepwiseEquivalenceReached ==
    /\ solve_pc = "returned"
    /\ step_pc = "done"
    /\ Len(yielded) >= 4
    /\ Len(solve_popped) >= 4

\* C5 (NoPathFound): when end is not joined to start, solve_maze_bfs raises
\* nothing, pops each cell at most once and returns None; bfs_stepwise
\* yields each cell at most once, never yields end, and ends with its queue
\* empty.
NoPathFound ==
    ~Reachable =>
        /\ solve_pc # "raised"
        /\ solve_pc = "loop" => solve_queue # <<>>
        /\ Len(solve_popped) <= Cardinality(Cells)
        /\ solve_pc = "returned" => solve_result = None
        /\ \A k \in 1..Len(yielded) : yielded[k].cell # end
        /\ Len(yielded) <= Cardinality(Cells)
        /\ step_pc = "done" => step_queue = <<>>

\* Both searches finished on a grid where end is cut off from start, after
\* exploring start's region of at least two cells.
NoPathFoundReached ==
    /\ ~Reachable
    /\ solve_pc = "returned"
    /\ step_pc = "done"
    /\ Len(yielded) >= 2

----------------------------------------------------------------------------
\* Searches over a generated maze

\* C7: over a maze generate_maze has finished, solve_maze_bfs ends by
\* returning a path, never None and never by raising, and bfs_stepwise, once
\* created and resumed again and again, comes to yield the end cell.
SearchSucceeds ==
    /\ [](gen_pc = "done" =>
            /\ solve_pc # "raised"
            /\ solve_pc = "returned" => solve_result # None)
    /\ (gen_pc = "done" /\ step_pc = "created")
          ~> (step_pc = "yielded" /\ step_cur = end)

\* Over a generated maze of six cells both searches have reached an end
\* cell that is at least two passages away from start.
SearchSucceedsReached ==
    /\ gen_pc = "done"
    /\ height * width >= 6
    /\ solve_pc = "returned" /\ Len(solve_result) >= 3
    /\ step_pc = "yielded" /\ step_cur = end /\ Len(yielded) >= 3

----------------------------------------------------------------------------
\* The protocol of bfs_stepwise

\* The in-bounds neighbours of the cell of the k-th yield that no wall
\* separates from it and that the matrix yielded with it shows unvisited.
Pending(k) ==
    {n \in {[i |-> i, cell |-> Move(yielded[k].cell, i)] : i \in 0..3} :
        /\ InBounds(n.cell, height, width)
        /\ ~grid[yielded[k].cell][n.i]
        /\ ~yielded[k].visited[n.cell]}

\* C8 as claimed: the matrix and map yielded with a popped cell other than
\* end already hold that cell's expansion, so none of its passages leads to
\* a cell they show unvisited.
ExpandedAtYield ==
    \A k \in 1..Len(yielded) :
        yielded[k].cell # end => Pending(k) = {}

\* C8 as amended: the popped cell is yielded before it is expanded.  While
\* the generator is suspended at the yield of a cell other than end, that
\* cell's unvisited open neighbours are still unvisited and have no parent;
\* the next resumption expands the cell, so they are visited with the cell
\* as parent in what the next yield hands out and when the generator ends.
ExpandedOnResume ==
    \A k \in 1..Len(yielded) :
        yielded[k].cell # end =>
            \A n \in Pending(k) :
                /\ (k = Len(yielded) /\ step_pc = "yielded") =>
                      /\ ~step_visited[n.cell]
                      /\ n.cell \notin DOMAIN step_parent
                /\ (k = Len(yielded) /\ step_pc = "done") =>
                      /\ step_visited[n.cell]
                      /\ n.cell \in DOMAIN step_parent
                      /\ step_parent[n.cell] = yielded[k].cell
                /\ k < Len(yielded) =>
                      /\ yielded[k + 1].visited[n.cell]
                      /\ n.cell \in DOMAIN yielded[k + 1].parent
                      /\ yielded[k + 1].parent[n.cell] = yielded[k].cell

\* A later yield exists for a cell that had two unvisited open neighbours
\* when it was yielded.
ExpandedOnResumeReached ==
    \E k \in 1..Len(yielded) :
        /\ k < Len(yielded)
        /\ yielded[k].cell # end
        /\ Cardinality(Pending(k)) >= 2

\* C9 (completion): a popped end cell is yielded, so a generator that has
\* finished after discovering end yielded end last; and once end has been
\* yielded, or the generator has finished, a step changes neither the
\* visited matrix nor the parent map, queues nothing and yields nothing.
EndYieldFinal ==
    /\ [](step_pc = "done" =>
            (step_visited[end] => yielded[Len(yielded)].cell = end))
    /\ [][((step_pc = "yielded" /\ step_cur = end) \/ step_pc = "done") =>
            /\ step_pc' \in {step_pc, "done"}
            /\ UNCHANGED <<step_queue, step_visited, step_parent, step_cur,
                           yielded>>]_vars

\* The generator has finished after yielding an end cell from which a
\* passage leads to a cell never visited.
EndYieldFinalReached ==
    /\ step_pc = "done"
    /\ yielded[Len(yielded)].cell = end
    /\ \E i \in 0..3 :
          /\ InBounds(Move(end, i), height, width)
          /\ ~grid[end][i]
          /\ ~step_visited[Move(end, i)]

\* C10 as claimed: what the caller received at a yield keeps the contents
\* it had at that yield.
YieldsAreSnapshots ==
    \A k \in 1..Len(yielded) :
        /\ HeldVisited(k) = yielded[k].visited
        /\ HeldParent(k) = yielded[k].parent

\* C10 as amended: every yield hands out the generator's own matrix and
\* map, so what was received at an earlier yield shows the contents of the
\* latest yield; resuming changes it only by adding: a cell marked visited
\* stays marked, and an entry of the parent map keeps its value.
YieldsAreLive ==
    \A k \in 1..Len(yielded) :
        /\ step_pc = "yielded" =>
              /\ HeldVisited(k) = yielded[Len(yielded)].visited
              /\ HeldParent(k) = yielded[Len(yielded)].parent
        /\ \A c \in Cells : yielded[k].visited[c] => HeldVisited(k)[c]
        /\ \A c \in DOMAIN yielded[k].parent :
              /\ c \in DOMAIN HeldParent(k)
              /\ HeldParent(k)[c] = yielded[k].parent[c]

\* What was received at the first yield has since grown by two cells.
YieldsAreLiveReached ==
    /\ Len(yielded) >= 2
    /\ Cardinality(DOMAIN HeldParent(1)) >=
          Cardinality(DOMAIN yielded[1].parent) + 2

----------------------------------------------------------------------------
\* reconstruct_path

\* The cells the walk of predecessor links from end passes through.
RECURSIVE Ancestry(_, _)
Ancestry(parent, S) ==
    LET T == S \cup ({parent[c] : c \in S \cap DOMAIN parent} \ {None})
    IN  IF T = S THEN S ELSE Ancestry(parent, T)

\* C11 (reconstruction misuse): when the map passed to reconstruct_path has
\* no entry for end, or none for a cell reached from end over predecessor
\* links, the call raises the missing-key error and returns no path.
MissingKeyRaised ==
    (recon_pc # "idle"
        /\ \E c \in Ancestry(recon_arg, {end}) : c \notin DOMAIN recon_arg) =>
            /\ recon_pc = "raised"
            /\ recon_result = None

\* The call raised on a map that holds end and end's predecessor but lacks
\* an earlier ancestor.
MissingKeyRaisedReached ==
    /\ recon_pc = "raised"
    /\ end \in DOMAIN recon_arg
    /\ recon_arg[end] \in DOMAIN recon_arg
    /\ recon_arg[end] # end

----------------------------------------------------------------------------
\* Determinism

\* The directions, in the order up, right, down, left, in which cell a has
\* an in-bounds neighbour outside the set seen.
FreeDirections(a, seen) ==
    SelectSeq(<<0, 1, 2, 3>>,
              LAMBDA i : InBounds(Move(a, i), height, width)
                         /\ Move(a, i) \notin seen)

\* The passages a depth-first carving from start opens when its successive
\* draws are the indices ks: a function of width, height, start and ks.
RECURSIVE CarvedBy(_, _, _, _)
CarvedBy(path, seen, open, ks) ==
    IF path = <<>> \/ ks = <<>> THEN open
    ELSE LET a == path[Len(path)]
             free == FreeDirections(a, seen)
         IN  IF free = <<>>
             THEN CarvedBy(SubSeq(path, 1, Len(path) - 1), seen, open, ks)
             ELSE LET i == free[Head(ks)]
                  IN  CarvedBy(Append(path, Move(a, i)),
                               seen \cup {Move(a, i)},
                               open \cup {<<a, i>>}, Tail(ks))

\* The cells in the order fixed by the direction enumeration up, right,
\* down, left and first-in first-out service, from start up to end: the
\* k-th cell contributes, in direction order, its neighbours behind an
\* absent wall that are not yet in the order.
RECURSIVE FifoOrder(_, _)
FifoOrder(order, k) ==
    IF k > Len(order) THEN order
    ELSE IF order[k] = end THEN SubSeq(order, 1, k)
    ELSE LET a == order[k]
             new == SelectSeq(<<0, 1, 2, 3>>,
                       LAMBDA i : /\ InBounds(Move(a, i), height, width)
                                  /\ ~grid[a][i]
                                  /\ \A j \in 1..Len(order) :
                                        order[j] # Move(a, i))
         IN  FifoOrder(order \o [j \in 1..Len(new) |-> Move(a, new[j])],
                       k + 1)

IsPrefix(s, t) == Len(s) <= Len(t) /\ SubSeq(t, 1, Len(s)) = s

\* C12 (determinism): the wall configuration is a function of width, height,
\* start and the sequence of random draws, and the order in which either
\* search pops cells is a function of the grid, start and end, namely the
\* order fixed by the direction enumeration and first-in first-out service;
\* so runs that agree on these inputs agree on the grid and on the order.
Determinism ==
    /\ grid = GridWith(height, width,
                       CarvedBy(<<start>>, {start}, {}, gen_choices))
    /\ GridReady =>
          LET order == FifoOrder(<<start>>, 1)
          IN  /\ IsPrefix(solve_popped, order)
              /\ IsPrefix(YieldedCells, order)
              /\ solve_pc = "returned" => solve_popped = order
              /\ step_pc = "done" => YieldedCells = order

\* A maze whose generation drew a second list element at least once, and
\* over which both searches have finished after four pops or more.
DeterminismReached ==
    /\ gen_pc = "done"
    /\ \E j \in 1..Len(gen_choices) : gen_choices[j] >= 2
    /\ solve_pc = "returned" /\ Len(solve_popped) >= 4
    /\ step_pc = "done" /\ Len(yielded) >= 4

----------------------------------------------------------------------------
\* Frame of the searches

\* C13 (the grid is read-only to the search): a step of solve_maze_bfs, of
\* bfs_stepwise or of reconstruct_path leaves the wall flags, width, height,
\* start, end and the generation visited matrix as they were.
GridReadOnly ==
    [][(solveVars' # solveVars \/ stepVars' # stepVars
           \/ reconVars' # reconVars) =>
        UNCHANGED <<grid, width, height, start, end, visited>>]_vars

\* All three operations have run to their end over a grid with passages.
GridReadOnlyReached ==
    /\ solve_pc = "returned" /\ Len(solve_popped) >= 3
    /\ step_pc = "yielded" /\ Len(yielded) >= 3
    /\ recon_pc = "returned"
    /\ OpenPassages # {}

----------------------------------------------------------------------------
\* Termination of generate_maze

\* C14 (generation terminates): the loop of generate_maze comes to an empty
\* stack; then every cell is marked visited and every cell has been pushed
\* on the stack exactly once.
GenerationTerminates ==
    /\ (gen_pc = "loop") ~> (gen_pc = "done")
    /\ [](gen_pc = "done" =>
            \A c \in Cells :
                /\ visited[c]
                /\ Cardinality({j \in 1..Len(gen_pushed) :
                                    gen_pushed[j] = c}) = 1)

\* Generation has ended on a maze of six cells in two rows or columns at
\* least.
GenerationTerminatesReached ==
    /\ gen_pc = "done"
    /\ Len(gen_pushed) >= 6
    /\ height >= 2 /\ width >= 2

----------------------------------------------------------------------------
\* Reconstruction by the caller of bfs_stepwise

\* C15: reconstruct_path called on the map yielded together with the end
\* cell returns a path (it neither raises nor runs on), and that path is the
\* one solve_maze_bfs returns for the same maze, start and end.
ReconstructionMatches ==
    /\ recon_pc # "idle" => recon_pc = "returned"
    /\ (recon_pc = "returned" /\ solve_pc \in {"returned", "raised"}) =>
          /\ solve_pc = "returned"
          /\ recon_result = solve_result

\* Both paths exist, of three cells or more, in a grid that has a cycle,
\* where several routes lead to end.
ReconstructionMatchesReached ==
    /\ recon_pc = "returned"
    /\ solve_pc = "returned"
    /\ Len(recon_result) >= 3
    /\ Cardinality(OpenPassages) >= width * height

----------------------------------------------------------------------------
\* Independence of the searches

\* C16 (searches share no visitation state): whatever searches ran before
\* or run interleaved with it (finished or left suspended), a call of
\* solve_maze_bfs pops the cells of a lone search and returns what the first
\* call returned, and each of two generators of bfs_stepwise yields the
\* cells a lone generator yields, in the same order.
SearchesIndependent ==
    GridReady =>
        LET lone == FifoOrder(<<start>>, 1)
        IN  /\ IsPrefix(solve_popped, lone)
            /\ solve_pc = "returned" =>
                  /\ solve_popped = lone
                  /\ \A j \in 1..Len(solve_first) :
                        solve_first[j] = solve_result
            /\ IsPrefix(YieldedCells, lone)
            /\ IsPrefix(other.cells, lone)
            /\ step_pc = "done" => YieldedCells = lone
            /\ other.pc = "done" => other.cells = lone

\* A second call of solve_maze_bfs has returned a path while one generator
\* has finished and the other was left suspended mid-way.
SearchesIndependentReached ==
    /\ solve_pc = "returned"
    /\ solve_first # <<>>
    /\ Len(solve_result) >= 3
    /\ step_pc = "yielded" /\ step_cur # end /\ Len(yielded) >= 2
    /\ other.pc = "done" /\ Len(other.cells) >= 3

----------------------------------------------------------------------------
\* Bookkeeping of the searches

Range(q) == {q[j] : j \in 1..Len(q)}

\* The position of cell c in the sequence popped, 0 if it is not in it.
PopIndex(popped, c) ==
    IF c \in Range(popped)
    THEN CHOOSE j \in 1..Len(popped) : popped[j] = c
    ELSE 0

\* The state of a search with the cells popped so far, its queue, visited
\* matrix and parent map is consistent.
Consistent(popped, queue, vis, parent) ==
    /\ DOMAIN parent = {c \in Cells : vis[c]}
    /\ DOMAIN parent = Range(popped) \cup Range(queue)
    /\ Cardinality(Range(popped)) + Cardinality(Range(queue))
          = Len(popped) + Len(queue)
    /\ Range(popped) \cap Range(queue) = {}
    /\ parent[start] = None
    /\ \A c \in DOMAIN parent \ {start} :
          /\ \E i \in 0..3 : Move(parent[c], i) = c /\ ~grid[parent[c]][i]
          /\ PopIndex(popped, parent[c]) >= 1
          /\ c \in Range(popped) =>
                PopIndex(popped, parent[c]) < PopIndex(popped, c)

\* C17 (search bookkeeping): between the iterations of solve_maze_bfs and
\* whenever bfs_stepwise is suspended or has ended, the keys of the parent
\* map are the cells marked visited, which are the cells popped together
\* with the cells queued; no cell is popped or queued twice; start maps to
\* None and every other visited cell maps to an adjacent cell, popped
\* earlier, that has no wall toward it.
SearchBookkeeping ==
    /\ solve_pc \in {"loop", "returned"} =>
          Consistent(solve_popped, solve_queue, solve_visited, solve_parent)
    /\ step_pc \in {"yielded", "done"} =>
          Consistent(YieldedCells, step_queue, step_visited, step_parent)

\* Both searches stand between iterations with cells popped and cells
\* queued.
SearchBookkeepingReached ==
    /\ solve_pc = "loop"
    /\ Len(solve_popped) >= 2 /\ Len(solve_queue) >= 2
    /\ step_pc = "yielded"
    /\ Len(yielded) >= 2 /\ Len(step_queue) >= 2

----------------------------------------------------------------------------
\* The carving loop

VisitedCells == {c \in Cells : visited[c]}

\* C18 (carving invariant): at the start of every iteration of the loop of
\* generate_maze, and when it has ended, the open passages form a tree that
\* spans exactly the visited cells (they join visited cells only, connect
\* them all to start, and number one less than the visited cells); the stack
\* holds visited cells, each once, begins at start, and its consecutive
\* entries are adjacent cells joined by an open passage; and no step ever
\* puts a wall back.
CarvingInvariant ==
    /\ [](gen_pc \in {"loop", "done"} =>
            /\ Cardinality(OpenPassages) = Cardinality(VisitedCells) - 1
            /\ \A e \in OpenPassages :
                  e[1] \in VisitedCells /\ Move(e[1], e[2]) \in VisitedCells
            /\ ReachFrom({start}) = VisitedCells
            /\ \A j \in 1..Len(stack) : stack[j] \in VisitedCells
            /\ Cardinality(Range(stack)) = Len(stack)
            /\ stack # <<>> => stack[1] = start
            /\ \A j \in 1..(Len(stack) - 1) :
                  \E i \in 0..3 :
                      stack[j + 1] = Move(stack[j], i) /\ Open(stack[j], i))
    /\ [][\A a \in Cells : \A i \in 0..3 : ~grid[a][i] => ~grid'[a][i]]_vars

\* An iteration begins with four cells on the stack after a dead end was
\* left behind.
CarvingInvariantReached ==
    /\ gen_pc = "loop"
    /\ Len(stack) >= 4
    /\ Cardinality(VisitedCells) > Len(stack)

----------------------------------------------------------------------------
\* generate_maze called again

\* C19: a call of generate_maze on a maze whose generation has ended finds
\* no unvisited neighbour of start, draws nothing, pops start and ends; the
\* grid stays what it was when the call began.
RegenerationCarvesNothing ==
    gen_before # None =>
        /\ grid = gen_before
        /\ gen_choices = <<>>
        /\ gen_pushed = <<start>>
        /\ gen_pc = "loop" =>
              /\ stack = <<start>>
              /\ GenNeighbors(start, visited, height, width) = {}
        /\ gen_pc = "done" => stack = <<>>

\* A second call has ended on a maze of six cells in two rows or columns at
\* least.
RegenerationCarvesNothingReached ==
    /\ gen_before # None
    /\ gen_pc = "done"
    /\ height >= 2 /\ width >= 2
    /\ Cardinality(OpenPassages) >= 5

====
